---- MODULE Spec2Model ----
(***************************************************************************)
(* Model of the "Combine Selected Open Files" VS Code extension            *)
(* (src/src/extension.ts; src/unnamed/part_000 is the same program with    *)
(* Japanese comments).                                                     *)
(*                                                                         *)
(* Two processes exchange messages:                                        *)
(*   - the extension host: the onDidReceiveMessage handler and             *)
(*     getOpenFiles (one promise per tab, Promise.all, filter);            *)
(*   - the webview page: the script of _getWebviewContent (fileData, the   *)
(*     DOM of #file-list, the three buttons, the message listener).        *)
(*                                                                         *)
(* Strings are sequences of one-character strings, so that formatting,     *)
(* joining and escaping are computed character by character.               *)
(***************************************************************************)
EXTENDS Integers, Sequences, FiniteSets, TLC

VARIABLES
  toHost,           \* messages posted by the page (vscode.postMessage), FIFO
  toUI,             \* messages posted by the host (webview.postMessage), FIFO
  calls,            \* getOpenFiles calls in flight, in the order they started
  loads,            \* number of times the page's script has run
  fileData,         \* the page's  let fileData
  fileList,         \* children of #file-list that hold a checkbox, in order
  loading,          \* the <p id="loading"> element
  combineDisplay,   \* combineButton.style.display
  controlsDisplay   \* .selection-controls style.display

vars == <<toHost, toUI, calls, loads, fileData, fileList, loading,
          combineDisplay, controlsDisplay>>

hostVars == <<calls>>
pageVars == <<fileData, fileList, loading, combineDisplay, controlsDisplay>>

----------------------------------------------------------------------------
(* Bounds of the model *)

\* page loads (the script runs once per load and posts one 'getFiles')
MaxLoads == 2
\* messages waiting in the page -> host channel
MaxQueue == 1

----------------------------------------------------------------------------
(* Strings *)

\* a bug: a misspelt header
HeaderPrefixLowercase ==
  <<"/", "/", " ", "=", "=", "=", "=", "=", " ", "f", "i", "l", "e", ":", " ">>

\* '// ===== File: '
HeaderPrefix ==
  <<"/", "/", " ", "=", "=", "=", "=", "=", " ", "F", "i", "l", "e", ":", " ">>

\* ' ====='
HeaderSuffix == <<" ", "=", "=", "=", "=", "=">>

\* the two newline characters written \\n\\n in the template
TwoNewlines == <<"\n", "\n">>

RECURSIVE Concat(_)
\* the concatenation of a sequence of strings
Concat(strs) ==
  IF strs = <<>> THEN <<>> ELSE Head(strs) \o Concat(Tail(strs))

\* a bug: the sections joined by a single newline
JoinSingleNewline(arr, sep) ==
  Concat([i \in 1..Len(arr) |-> IF i = 1 THEN arr[i] ELSE <<"\n">> \o arr[i]])

\* Array.prototype.join(sep)
Join(arr, sep) ==
  Concat([i \in 1..Len(arr) |-> IF i = 1 THEN arr[i] ELSE sep \o arr[i]])

EscapeAmpersand(ch) ==
  IF ch = "&" THEN <<"&", "a", "m", "p", ";">> ELSE <<ch>>

EscapeOthers(ch) ==
  CASE ch = "<"  -> <<"&", "l", "t", ";">>
    [] ch = ">"  -> <<"&", "g", "t", ";">>
    [] ch = "\"" -> <<"&", "q", "u", "o", "t", ";">>
    [] ch = "'"  -> <<"&", "#", "3", "9", ";">>
    [] OTHER     -> <<ch>>

\* a bug: '&' replaced in a second pass, after the other four characters
escapeHtmlTwoPasses(str) ==
  LET first == Concat([i \in 1..Len(str) |-> EscapeOthers(str[i])])
  IN  Concat([i \in 1..Len(first) |-> EscapeAmpersand(first[i])])

\* the replacement function of escapeHtml: the object literal indexed by match
Replacement(ch) ==
  IF ch = "&" THEN EscapeAmpersand(ch) ELSE EscapeOthers(ch)

\* str.replace(/[&<>"']/g, fn): one pass, each match replaced, the rest copied
escapeHtml(str) ==
  Concat([i \in 1..Len(str) |-> Replacement(str[i])])

----------------------------------------------------------------------------
(* The editor: documents and tab layouts (inputs of getOpenFiles) *)

WorkspaceRoot == <<"/", "w">>

\* uri.fsPath of the documents that may be open
FsPath(uri) ==
  CASE uri = "a" -> WorkspaceRoot \o <<"/", "a", ".", "t", "x", "t">>
    [] uri = "b" -> WorkspaceRoot \o <<"/", "b", ".", "t", "x", "t">>
    [] uri = "s" -> <<"/", "x", "/", "<", "b", ">", "&", "'", "\"">>

\* document.getText()
GetText(uri) ==
  CASE uri = "a" -> <<"h", "e", "l", "l", "o">>
    [] uri = "b" -> <<"w", "o", "r", "l", "d">>
    [] uri = "s" -> HeaderPrefix \o <<"z">>

TextTab(uri) == [kind |-> "text", uri |-> uri]
OtherTab == [kind |-> "other", uri |-> "none"]

\* vscode.window.tabGroups.all: the layouts the editor may be in
TabLayouts ==
  { << <<>> >>,
    << <<TextTab("a"), TextTab("b")>> >>,
    << <<TextTab("s")>>, <<OtherTab, TextTab("a")>> >>,
    << <<TextTab("b")>>, <<TextTab("b")>> >> }

\* path.basename(p): what follows the last '/'
Basename(p) ==
  LET slashes == {i \in 1..Len(p) : p[i] = "/"}
      last == IF slashes = {} THEN 0
              ELSE CHOOSE i \in slashes : \A j \in slashes : j <= i
  IN  SubSeq(p, last + 1, Len(p))

\* vscode.workspace.asRelativePath(p): relative to the workspace folder when
\* p lies in it, p itself otherwise
AsRelativePath(p) ==
  LET root == WorkspaceRoot \o <<"/">>
  IN  IF Len(p) > Len(root) /\ SubSeq(p, 1, Len(root)) = root
      THEN SubSeq(p, Len(root) + 1, Len(p))
      ELSE p

Null == [null |-> TRUE]
Pending == [pending |-> TRUE]

\* the object returned after a successful openTextDocument
FileRecord(uri) ==
  [name |-> Basename(FsPath(uri)),
   path |-> AsRelativePath(FsPath(uri)),
   content |-> GetText(uri)]

----------------------------------------------------------------------------
(* Extension host *)

RECURSIVE FlatMapTabs(_)
\* tabGroups.all.flatMap(group => group.tabs)
FlatMapTabs(groups) ==
  IF groups = <<>> THEN <<>> ELSE Head(groups) \o FlatMapTabs(Tail(groups))

\* tabs.map(async tab => ...): a text tab's promise waits for
\* openTextDocument (one call per text tab, counted in reads), any other
\* tab's promise is fulfilled with null at once.  groups records the editor's
\* layout the call read; the call itself keeps only tabs.
StartCall(groups) ==
  LET tabs == FlatMapTabs(groups)
  IN  [groups |-> groups,
       tabs |-> tabs,
       promises |-> [i \in 1..Len(tabs) |->
                       IF tabs[i].kind = "text" THEN Pending ELSE Null],
       reads |-> [i \in 1..Len(tabs) |->
                       IF tabs[i].kind = "text" THEN 1 ELSE 0]]

\* a bug: the results are collected in the order the reads complete (the
\* value takes the first slot still pending, whose read takes slot i)
SettleInCompletionOrder(call, i, value) ==
  LET free == {j \in 1..Len(call.promises) : call.promises[j] = Pending}
      first == CHOOSE j \in free : \A k \in free : j <= k
  IN  [call EXCEPT !.promises[first] = value,
                   !.tabs[first] = call.tabs[i],
                   !.tabs[i] = call.tabs[first]]

\* promise i of the call settles with value: Promise.all keeps it at index i
Settle(call, i, value) ==
  [call EXCEPT !.promises[i] = value]

\* catch (e) { console.error(...); return null; }
Catch(call, i) ==
  Settle(call, i, Null)

\* a bug: the nulls are kept
FilterKeepAll(files) == files

\* files.filter(f => f !== null)
FilterNotNull(files) ==
  SelectSeq(files, LAMBDA f : f # Null)

AllSettled(call) ==
  \A i \in 1..Len(call.promises) : call.promises[i] # Pending

RemoveAt(seq, k) ==
  SubSeq(seq, 1, k - 1) \o SubSeq(seq, k + 1, Len(seq))

\* case 'getFiles': getOpenFiles() starts; it reads the tabs and issues every
\* openTextDocument before its first await
HostGetFiles ==
  /\ toHost # <<>>
  /\ Head(toHost).command = "getFiles"
  /\ \E groups \in TabLayouts :
       calls' = Append(calls, StartCall(groups))
  /\ toHost' = Tail(toHost)
  /\ UNCHANGED <<toUI, loads>>
  /\ UNCHANGED pageVars

\* await vscode.workspace.openTextDocument(uri) returns the document
ReadSucceeds ==
  \E c \in 1..Len(calls) : \E i \in 1..Len(calls[c].promises) :
    /\ calls[c].promises[i] = Pending
    /\ calls' = [calls EXCEPT
                   ![c] = Settle(calls[c], i, FileRecord(calls[c].tabs[i].uri))]
    /\ UNCHANGED <<toHost, toUI, loads>>
    /\ UNCHANGED pageVars

\* await vscode.workspace.openTextDocument(uri) throws
ReadFails ==
  \E c \in 1..Len(calls) : \E i \in 1..Len(calls[c].promises) :
    /\ calls[c].promises[i] = Pending
    /\ calls' = [calls EXCEPT ![c] = Catch(calls[c], i)]
    /\ UNCHANGED <<toHost, toUI, loads>>
    /\ UNCHANGED pageVars

\* Promise.all(filePromises) of the c-th call is fulfilled; the call returns
\* the filtered list and the handler posts { command: 'updateFiles', files }
PostReply(c) ==
  /\ AllSettled(calls[c])
  /\ toUI' = Append(toUI, [command |-> "updateFiles",
                           files |-> FilterNotNull(calls[c].promises)])
  /\ calls' = RemoveAt(calls, c)
  /\ UNCHANGED <<toHost, loads>>
  /\ UNCHANGED pageVars

HostPostUpdateFiles ==
  \E c \in 1..Len(calls) : PostReply(c)

\* case 'generateFile': openTextDocument({content: message.text}) and
\* showTextDocument hand the text to the editor as a new untitled document;
\* the editor's tabs are an input of HostGetFiles
HostGenerateFile ==
  /\ toHost # <<>>
  /\ Head(toHost).command = "generateFile"
  /\ toHost' = Tail(toHost)
  /\ UNCHANGED <<toUI, calls, loads>>
  /\ UNCHANGED pageVars

----------------------------------------------------------------------------
(* Webview page *)

\* <p id="loading">Loading open files...</p>, a child of #file-list
LoadingInitial == [text |-> "Loading open files...", display |-> "", attached |-> TRUE]

\* item.innerHTML of one .file-item: the checkbox (data-index, checked) and
\* the escaped name and path
FileItem(file, index) ==
  [index |-> index,
   checked |-> TRUE,
   label |-> escapeHtml(file.name),
   pathHtml |-> escapeHtml(file.path)]

\* a bug: the empty branch leaves the combine button as it is
RenderEmptyKeepsButton(files) ==
  /\ loading' = [loading EXCEPT !.text = "No text files are open."]
  /\ combineDisplay' = combineDisplay
  /\ controlsDisplay' = "none"
  /\ fileList' = fileList

\* renderFileList, fileData.length === 0
RenderEmpty(files) ==
  /\ loading' = [loading EXCEPT !.text = "No text files are open."]
  /\ combineDisplay' = "none"
  /\ controlsDisplay' = "none"
  /\ fileList' = fileList

\* renderFileList, fileData.length > 0: #file-list is emptied (which detaches
\* the loading paragraph) and gets one item per file
RenderList(files) ==
  /\ controlsDisplay' = "flex"
  /\ fileList' = [k \in 1..Len(files) |-> FileItem(files[k], k - 1)]
  /\ loading' = [loading EXCEPT !.display = "none", !.attached = FALSE]
  /\ combineDisplay' = "block"

renderFileList(files) ==
  IF Len(files) = 0 THEN RenderEmpty(files) ELSE RenderList(files)

\* window 'message' listener, message.command === 'updateFiles'
PageUpdateFiles ==
  /\ toUI # <<>>
  /\ Head(toUI).command = "updateFiles"
  /\ fileData' = Head(toUI).files
  /\ renderFileList(Head(toUI).files)
  /\ toUI' = Tail(toUI)
  /\ UNCHANGED <<toHost, loads>>
  /\ UNCHANGED hostVars

\* a bug: a click checks the box instead of flipping it
toggleSetsChecked(list, k) ==
  [list EXCEPT ![k].checked = TRUE]

\* a click on the k-th checkbox (or on its .file-info, which clicks it)
toggle(list, k) ==
  [list EXCEPT ![k].checked = ~@]

\* checkboxes.forEach(checkbox => { checkbox.checked = value; })
setAll(list, value) ==
  [k \in 1..Len(list) |-> [list[k] EXCEPT !.checked = value]]

ClickCheckbox ==
  \E k \in 1..Len(fileList) :
    /\ fileList' = toggle(fileList, k)
    /\ UNCHANGED <<toHost, toUI, loads, fileData, loading, combineDisplay,
                   controlsDisplay>>
    /\ UNCHANGED hostVars

\* a click on the <label for="file-k"> inside .file-info: the click bubbles to
\* .file-info, whose onclick clicks the checkbox, and the label's own
\* activation clicks the checkbox once more
ClickLabel ==
  \E k \in 1..Len(fileList) :
    /\ fileList' = toggle(toggle(fileList, k), k)
    /\ UNCHANGED <<toHost, toUI, loads, fileData, loading, combineDisplay,
                   controlsDisplay>>
    /\ UNCHANGED hostVars

\* selectAllButton 'click'; the button can be clicked while its container shows
ClickSelectAll ==
  /\ controlsDisplay # "none"
  /\ fileList' = setAll(fileList, TRUE)
  /\ UNCHANGED <<toHost, toUI, loads, fileData, loading, combineDisplay,
                 controlsDisplay>>
  /\ UNCHANGED hostVars

\* unselectAllButton 'click'
ClickUnselectAll ==
  /\ controlsDisplay # "none"
  /\ fileList' = setAll(fileList, FALSE)
  /\ UNCHANGED <<toHost, toUI, loads, fileData, loading, combineDisplay,
                 controlsDisplay>>
  /\ UNCHANGED hostVars

\* a bug: the selector without :checked
QueryAllCheckboxes(list) == list

\* document.querySelectorAll('input[type="checkbox"]:checked'), document order
QueryChecked(list) ==
  SelectSeq(list, LAMBDA item : item.checked)

\* header + file.content
Section(file) ==
  HeaderPrefix \o file.path \o HeaderSuffix \o TwoNewlines \o file.content

RECURSIVE PushSections(_, _, _)
\* checkboxes.forEach: index = parseInt(dataset.index), file = fileData[index],
\* if (file) selectedContents.push(header + file.content)
PushSections(checkboxes, files, selectedContents) ==
  IF checkboxes = <<>> THEN selectedContents
  ELSE LET index == Head(checkboxes).index
       IN  PushSections(Tail(checkboxes), files,
             IF index + 1 \in DOMAIN files
             THEN Append(selectedContents, Section(files[index + 1]))
             ELSE selectedContents)

\* the text of the 'generateFile' message
CombinedText(list, files) ==
  Join(PushSections(QueryChecked(list), files, <<>>), TwoNewlines)

\* combineButton 'click'; the button can be clicked while it is displayed
ClickCombine ==
  /\ combineDisplay # "none"
  /\ Len(toHost) < MaxQueue
  /\ toHost' = Append(toHost, [command |-> "generateFile",
                               text |-> CombinedText(fileList, fileData)])
  /\ UNCHANGED <<toUI, loads>>
  /\ UNCHANGED hostVars
  /\ UNCHANGED pageVars

\* The view is hidden and shown again: the page is created anew from
\* webview.html and its script runs again; messages not yet delivered to the
\* old page are lost with it, calls in flight in the host go on
ReloadPage ==
  /\ loads < MaxLoads
  /\ Len(toHost) < MaxQueue
  /\ loads' = loads + 1
  /\ fileData' = <<>>
  /\ fileList' = <<>>
  /\ loading' = LoadingInitial
  /\ combineDisplay' = "none"
  /\ controlsDisplay' = ""
  /\ toUI' = <<>>
  /\ toHost' = Append(toHost, [command |-> "getFiles"])
  /\ UNCHANGED hostVars

----------------------------------------------------------------------------
(* Specification *)

\* the view was resolved and the page's script has run once
Init ==
  /\ toHost = <<[command |-> "getFiles"]>>
  /\ toUI = <<>>
  /\ calls = <<>>
  /\ loads = 1
  /\ fileData = <<>>
  /\ fileList = <<>>
  /\ loading = LoadingInitial
  /\ combineDisplay = "none"
  /\ controlsDisplay = ""

Next ==
  \/ HostGetFiles
  \/ ReadSucceeds
  \/ ReadFails
  \/ HostPostUpdateFiles
  \/ HostGenerateFile
  \/ PageUpdateFiles
  \/ ClickCheckbox
  \/ ClickLabel
  \/ ClickSelectAll
  \/ ClickUnselectAll
  \/ ClickCombine
  \/ ReloadPage

Spec == Init /\ [][Next]_vars

----------------------------------------------------------------------------
(* Vocabulary of the properties, written from the statements they check *)

\* the literal '// ===== File: '
ClaimHeaderLiteral ==
  <<"/", "/", " ", "=", "=", "=", "=", "=", " ", "F", "i", "l", "e",
    ":", " ">>

\* the literal ' ====='
ClaimHeaderEnd == <<" ", "=", "=", "=", "=", "=">>

ClaimBlankLine == <<"\n", "\n">>

ClaimSection(record) ==
  ClaimHeaderLiteral \o record.path \o ClaimHeaderEnd \o ClaimBlankLine
    \o record.content

RECURSIVE ClaimCombine(_)
\* the sections of the records, joined by exactly two newline characters
ClaimCombine(records) ==
  IF records = <<>> THEN <<>>
  ELSE IF Len(records) = 1 THEN ClaimSection(records[1])
  ELSE ClaimSection(records[1]) \o ClaimBlankLine \o ClaimCombine(Tail(records))

\* this step posts a 'generateFile' message
CombineStep ==
  /\ Len(toHost') = Len(toHost) + 1
  /\ toHost'[Len(toHost')].command = "generateFile"

\* the text of the message this step posts
PostedText == toHost'[Len(toHost')].text

\* the records of the checked checkboxes, in document order
SelectedRecords ==
  LET checked == SelectSeq(fileList, LAMBDA item : item.checked)
  IN  [k \in 1..Len(checked) |-> fileData[checked[k].index + 1]]

\* whether the record of 0-based index i is marked included
Included(i) ==
  \E k \in 1..Len(fileList) : fileList[k].index = i /\ fileList[k].checked

RECURSIVE IncludedFrom(_)
\* the records of fileData from position k on that are marked included, in
\* the order of fileData
IncludedFrom(k) ==
  IF k > Len(fileData) THEN <<>>
  ELSE (IF Included(k - 1) THEN <<fileData[k]>> ELSE <<>>)
         \o IncludedFrom(k + 1)

\* the positions at which pattern occurs in text
OccurrencesOf(pattern, text) ==
  {p \in 1..(Len(text) - Len(pattern) + 1) :
     SubSeq(text, p, p + Len(pattern) - 1) = pattern}

\* whether text continues with str from position p on
ContinuesWith(text, p, str) ==
  /\ p + Len(str) - 1 <= Len(text)
  /\ SubSeq(text, p, p + Len(str) - 1) = str

\* the k-th smallest element of a finite set of integers
KthOf(set, k) ==
  CHOOSE p \in set : Cardinality({q \in set : q < p}) = k - 1

RECURSIVE SumOver(_, _)
SumOver(f, k) ==
  IF k = 0 THEN 0 ELSE f[k] + SumOver(f, k - 1)

ExampleA ==
  [path |-> <<"a", ".", "t", "x", "t">>, content |-> <<"h", "e", "l", "l", "o">>]

ExampleB ==
  [path |-> <<"b", ".", "t", "x", "t">>, content |-> <<"w", "o", "r", "l", "d">>]

ExampleText ==
  <<"/", "/", " ", "=", "=", "=", "=", "=", " ", "F", "i", "l", "e",
    ":", " ", "a", ".", "t", "x", "t", " ", "=", "=", "=", "=", "=",
    "\n", "\n", "h", "e", "l", "l", "o", "\n", "\n", "/", "/", " ",
    "=", "=", "=", "=", "=", " ", "F", "i", "l", "e", ":", " ", "b",
    ".", "t", "x", "t", " ", "=", "=", "=", "=", "=", "\n", "\n", "w",
    "o", "r", "l", "d">>

PathsAndContents(records) ==
  [k \in 1..Len(records) |->
     [path |-> records[k].path, content |-> records[k].content]]

----------------------------------------------------------------------------
(* C1 *)

\* C1: whenever the combine action posts its message, the text equals the
\* sections of the selected records ('// ===== File: ' + path + ' =====' +
\* two newlines + content), joined by exactly two newlines; it is the empty
\* string for an empty selection and the documented text for (a.txt, hello),
\* (b.txt, world).
C1_CombineFormat ==
  [][CombineStep =>
       /\ PostedText = ClaimCombine(SelectedRecords)
       /\ (SelectedRecords = <<>> => PostedText = <<>>)
       /\ (PathsAndContents(SelectedRecords) = <<ExampleA, ExampleB>>
             => PostedText = ExampleText)]_vars

\* the documented two-record text has been posted
C1_Witness ==
  \E m \in 1..Len(toHost) :
    /\ toHost[m].command = "generateFile"
    /\ toHost[m].text = ExampleText

----------------------------------------------------------------------------
(* C2 *)

\* C2: whatever toggles, select-all and unselect-all preceded it, the text
\* the combine action posts holds one section for each record marked
\* included and none for any other, each once, in the order of fileData.
C2_IncludedInOrder ==
  [][CombineStep => PostedText = ClaimCombine(IncludedFrom(1))]_vars

\* of two delivered records only the second is included (the first was
\* toggled off) and the posted text is the second record's section alone
C2_Witness ==
  /\ Len(fileData) = 2
  /\ ~Included(0)
  /\ Included(1)
  /\ \E m \in 1..Len(toHost) :
       /\ toHost[m].command = "generateFile"
       /\ toHost[m].text = ClaimSection(fileData[2])

----------------------------------------------------------------------------
(* C3 *)

\* C3 as stated: the text posted for a non-empty selection R holds exactly
\* Len(R) occurrences of '// ===== File: ', the k-th followed by the k-th
\* record's path and ' ====='.
C3_ExactlyLenOccurrences ==
  [][(CombineStep /\ SelectedRecords # <<>>) =>
       LET occ == OccurrencesOf(ClaimHeaderLiteral, PostedText)
       IN  /\ Cardinality(occ) = Len(SelectedRecords)
           /\ \A k \in 1..Len(SelectedRecords) :
                ContinuesWith(PostedText,
                              KthOf(occ, k) + Len(ClaimHeaderLiteral),
                              SelectedRecords[k].path \o ClaimHeaderEnd)]_vars

\* the position at which the k-th section of the posted text starts
SectionStart(records, k) ==
  1 + SumOver([j \in 1..Len(records) |->
                 Len(ClaimSection(records[j])) + Len(ClaimBlankLine)], k - 1)

\* the occurrences of the literal a record carries itself: in its content and
\* in its path followed by ' ====='
CarriedOccurrences(record) ==
  Cardinality(OccurrencesOf(ClaimHeaderLiteral, record.content))
    + Cardinality(OccurrencesOf(ClaimHeaderLiteral,
                                record.path \o ClaimHeaderEnd))

\* C3 amended: the text posted for a non-empty selection R holds an
\* occurrence of '// ===== File: ' at the start of each record's section,
\* followed by that record's path and ' ====='; the number of occurrences is
\* Len(R) plus those the records' contents and paths carry themselves.
C3_AtLeastLenOccurrences ==
  [][(CombineStep /\ SelectedRecords # <<>>) =>
       LET R == SelectedRecords
           occ == OccurrencesOf(ClaimHeaderLiteral, PostedText)
       IN  /\ \A k \in 1..Len(R) :
                /\ SectionStart(R, k) \in occ
                /\ ContinuesWith(PostedText,
                                 SectionStart(R, k) + Len(ClaimHeaderLiteral),
                                 R[k].path \o ClaimHeaderEnd)
           /\ Cardinality(occ) >= Len(R)
           /\ Cardinality(occ)
                = Len(R) + SumOver([k \in 1..Len(R) |->
                                      CarriedOccurrences(R[k])], Len(R))]_vars

\* a text posted for two records whose first carries the literal in its
\* content: three occurrences
C3_Witness ==
  \E m \in 1..Len(toHost) :
    /\ toHost[m].command = "generateFile"
    /\ Len(fileData) = 2
    /\ toHost[m].text = ClaimCombine(fileData)
    /\ Cardinality(OccurrencesOf(ClaimHeaderLiteral, toHost[m].text)) = 3

----------------------------------------------------------------------------
(* C4 *)

\* the data-index values of the checked checkboxes, in document order
CheckedIndices(list) ==
  LET checked == SelectSeq(list, LAMBDA item : item.checked)
  IN  [k \in 1..Len(checked) |-> checked[k].index]

\* <<0, 1, ..., n - 1>>
IndicesUpTo(n) == [k \in 1..n |-> k - 1]

\* C4: after an 'updateFiles' message with n records is rendered the selected
\* indices are 0..n-1; after unselect-all they are none; after select-all
\* they are 0..n-1; a toggle flips one flag and leaves every other unchanged.
C4_SelectionModel ==
  [][/\ PageUpdateFiles =>
          CheckedIndices(fileList') = IndicesUpTo(Len(fileData'))
     /\ ClickUnselectAll => CheckedIndices(fileList') = <<>>
     /\ ClickSelectAll =>
          CheckedIndices(fileList') = IndicesUpTo(Len(fileData'))
     /\ ClickCheckbox =>
          /\ Len(fileList') = Len(fileList)
          /\ \E k \in 1..Len(fileList) :
               /\ fileList'[k].checked = ~fileList[k].checked
               /\ \A j \in 1..Len(fileList) :
                    j # k => fileList'[j] = fileList[j]]_vars

----------------------------------------------------------------------------
(* C5 *)

\* whether a promise was fulfilled with a file record
IsRecord(value) == value # Null /\ value # Pending

\* the slots of a call whose read succeeded
SucceededSlots(call) ==
  {i \in 1..Len(call.promises) : IsRecord(call.promises[i])}

\* this step posts the reply of the c-th call in flight
ReplyStepOf(c) ==
  /\ calls' = RemoveAt(calls, c)
  /\ Len(toUI') = Len(toUI) + 1
  /\ toUI'[Len(toUI')].command = "updateFiles"

PostedFiles == toUI'[Len(toUI')].files

\* C5: a failed read does not fail the enumeration: openTextDocument is
\* called at most once per tab of a call and never for a non-text tab; once
\* every promise of a call is settled, failed ones included, its reply can be
\* posted; and the posted list holds exactly the records of the text tabs
\* whose read succeeded, with no placeholder for the others.
C5_FailedReadsDropped ==
  /\ [](\A c \in 1..Len(calls) :
          /\ \A i \in 1..Len(calls[c].tabs) :
               /\ calls[c].reads[i] <= 1
               /\ calls[c].tabs[i].kind # "text" => calls[c].reads[i] = 0
          /\ AllSettled(calls[c]) => ENABLED PostReply(c))
  /\ [][HostPostUpdateFiles =>
          \E c \in 1..Len(calls) :
            /\ ReplyStepOf(c)
            /\ Len(PostedFiles) = Cardinality(SucceededSlots(calls[c]))
            /\ \A k \in 1..Len(PostedFiles) :
                 /\ IsRecord(PostedFiles[k])
                 /\ DOMAIN PostedFiles[k] = {"name", "path", "content"}
                 /\ Cardinality({j \in 1..Len(PostedFiles) :
                                   PostedFiles[j] = PostedFiles[k]})
                      = Cardinality({i \in SucceededSlots(calls[c]) :
                                       FileRecord(calls[c].tabs[i].uri)
                                         = PostedFiles[k]})]_vars

\* a reply with a single record is waiting for the page: every layout with a
\* text tab has two text tabs, so one read failed and its tab was dropped
C5_Witness ==
  \E m \in 1..Len(toUI) :
    /\ Len(toUI[m].files) = 1
    /\ toUI[m].files[1].content = <<"h", "e", "l", "l", "o">>

----------------------------------------------------------------------------
(* C6 *)

\* no 'updateFiles' message has reached this page yet
AwaitingEnumeration == loading = LoadingInitial

\* C6: the combine button is displayed only when a result has been received
\* and the latest received list is not empty, and a 'generateFile' message is
\* posted only then.
C6_CombineOffered ==
  /\ [](combineDisplay # "none" =>
          ~AwaitingEnumeration /\ Len(fileData) > 0)
  /\ [][CombineStep => ~AwaitingEnumeration /\ Len(fileData) > 0]_vars

\* an empty list was received after a list had been shown, and the button
\* is hidden
C6_Witness ==
  /\ ~AwaitingEnumeration
  /\ Len(fileData) = 0
  /\ fileList # <<>>
  /\ combineDisplay = "none"

----------------------------------------------------------------------------
(* C7 *)

\* C7: after every delivered 'updateFiles' message the page shows exactly one
\* checkbox per record of the delivered list, with indices 0..n-1, every one
\* checked, and none of an earlier list.
C7_RefreshResetsSelection ==
  [][PageUpdateFiles =>
       /\ Len(fileList') = Len(fileData')
       /\ \A k \in 1..Len(fileList') :
            fileList'[k].index = k - 1 /\ fileList'[k].checked]_vars

----------------------------------------------------------------------------
(* C8 *)

RECURSIVE GroupOffset(_, _)
\* the number of tabs in the groups before group g
GroupOffset(groups, g) ==
  IF g = 1 THEN 0 ELSE GroupOffset(groups, g - 1) + Len(groups[g - 1])

\* the (group, tab) places of a layout whose read succeeded
SucceededPlaces(call) ==
  {place \in (1..Len(call.groups)) \X (1..Len(call.tabs)) :
     /\ place[2] <= Len(call.groups[place[1]])
     /\ call.groups[place[1]][place[2]].kind = "text"
     /\ IsRecord(call.promises[GroupOffset(call.groups, place[1]) + place[2]])}

\* tab-order: groups in order, tabs in order within a group
Before(p, q) == p[1] < q[1] \/ (p[1] = q[1] /\ p[2] < q[2])

\* C8: a reply is posted only when every promise of its call is settled, and
\* its list is in tab order (groups in order, tabs in order within a group)
\* whatever the order in which the reads completed.
C8_TabOrder ==
  [][HostPostUpdateFiles =>
       \E c \in 1..Len(calls) :
         /\ ReplyStepOf(c)
         /\ \A i \in 1..Len(calls[c].promises) : calls[c].promises[i] # Pending
         /\ LET places == SucceededPlaces(calls[c])
            IN  /\ Len(PostedFiles) = Cardinality(places)
                /\ \A p \in places :
                     PostedFiles[1 + Cardinality({q \in places : Before(q, p)})]
                       = FileRecord(calls[c].groups[p[1]][p[2]].uri)]_vars

\* a two-record reply over two tab groups is waiting for the page while, in
\* another call, the read of a later tab has completed before an earlier one
C8_Witness ==
  /\ \E m \in 1..Len(toUI) :
       /\ Len(toUI[m].files) = 2
       /\ toUI[m].files[1].content # <<"h", "e", "l", "l", "o">>
       /\ toUI[m].files[2].content = <<"h", "e", "l", "l", "o">>
  /\ \E c \in 1..Len(calls) : \E i, j \in 1..Len(calls[c].promises) :
       /\ i < j
       /\ calls[c].promises[i] = Pending
       /\ IsRecord(calls[c].promises[j])

----------------------------------------------------------------------------
(* C9 *)

\* C9 as stated: a toggle or a set-all applied again to the state it
\* produced leaves that state unchanged, and neither changes the number of
\* flags nor an index.
C9_AllIdempotent ==
  [][/\ ClickCheckbox =>
          \A k \in 1..Len(fileList) :
            fileList' = toggle(fileList, k) => toggle(fileList', k) = fileList'
     /\ ClickSelectAll => setAll(fileList', TRUE) = fileList'
     /\ ClickUnselectAll => setAll(fileList', FALSE) = fileList'
     /\ (ClickCheckbox \/ ClickSelectAll \/ ClickUnselectAll) =>
          /\ Len(fileList') = Len(fileList)
          /\ CheckedIndices(setAll(fileList', TRUE))
               = CheckedIndices(setAll(fileList, TRUE))
          /\ fileData' = fileData]_vars

\* C9 amended: a set-all applied again leaves the state unchanged; a toggle
\* changes the state and, applied again, restores the state before the
\* first; neither changes the number of flags nor an index.
C9_SetAllIdempotentToggleInvolution ==
  [][/\ ClickCheckbox =>
          /\ fileList' # fileList
          /\ \A k \in 1..Len(fileList) :
               fileList' = toggle(fileList, k) =>
                 toggle(fileList', k) = fileList
     /\ ClickSelectAll => setAll(fileList', TRUE) = fileList'
     /\ ClickUnselectAll => setAll(fileList', FALSE) = fileList'
     /\ (ClickCheckbox \/ ClickSelectAll \/ ClickUnselectAll) =>
          /\ Len(fileList') = Len(fileList)
          /\ CheckedIndices(setAll(fileList', TRUE))
               = CheckedIndices(setAll(fileList, TRUE))
          /\ fileData' = fileData]_vars

\* a list of two whose first flag is off and whose second is on: reached by
\* a toggle, or by unselect-all and a toggle
C9_Witness ==
  /\ Len(fileList) = 2
  /\ ~fileList[1].checked
  /\ fileList[2].checked

----------------------------------------------------------------------------
(* C10 *)

\* the five replacements
ClaimEntity(ch) ==
  CASE ch = "&"  -> <<"&", "a", "m", "p", ";">>
    [] ch = "<"  -> <<"&", "l", "t", ";">>
    [] ch = ">"  -> <<"&", "g", "t", ";">>
    [] ch = "\"" -> <<"&", "q", "u", "o", "t", ";">>
    [] ch = "'"  -> <<"&", "#", "3", "9", ";">>
    [] OTHER     -> <<ch>>

RECURSIVE ClaimEscape(_)
\* left to right, each character replaced once, what was produced never read
\* again
ClaimEscape(str) ==
  IF str = <<>> THEN <<>>
  ELSE ClaimEntity(Head(str)) \o ClaimEscape(Tail(str))

\* <b>&'"
EscapeExample == <<"<", "b", ">", "&", "'", "\"">>

\* &lt;b&gt;&amp;&#39;&quot;
EscapeExampleResult ==
  <<"&", "l", "t", ";", "b", "&", "g", "t", ";", "&", "a", "m", "p",
    ";", "&", "#", "3", "9", ";", "&", "q", "u", "o", "t", ";">>

\* C10: every item of the list shows the name and the path of its record
\* escaped in one pass (& < > " ' replaced, the rest unchanged, nothing
\* escaped twice; <b>&'" becomes &lt;b&gt;&amp;&#39;&quot;), and the text the
\* combine action posts holds each selected record's path and content
\* unescaped.
C10_EscapeOnlyInList ==
  /\ [](\A k \in 1..Len(fileList) :
          fileList[k].index + 1 \in DOMAIN fileData =>
            LET file == fileData[fileList[k].index + 1]
            IN  /\ fileList[k].label = ClaimEscape(file.name)
                /\ fileList[k].pathHtml = ClaimEscape(file.path)
                /\ file.name = EscapeExample =>
                     fileList[k].label = EscapeExampleResult)
  /\ [][CombineStep =>
          \A k \in 1..Len(SelectedRecords) :
            ContinuesWith(PostedText,
                          SectionStart(SelectedRecords, k)
                            + Len(ClaimHeaderLiteral),
                          SelectedRecords[k].path \o ClaimHeaderEnd
                            \o ClaimBlankLine
                            \o SelectedRecords[k].content)]_vars

\* the list shows &lt;b&gt;&amp;&#39;&quot; for a record named <b>&'" and a
\* posted text holds that record's path as it is
C10_Witness ==
  /\ \E k \in 1..Len(fileList) : fileList[k].label = EscapeExampleResult
  /\ \E m \in 1..Len(toHost) :
       /\ toHost[m].command = "generateFile"
       /\ ContinuesWith(toHost[m].text, Len(ClaimHeaderLiteral) + 1,
                        <<"/", "x", "/">> \o EscapeExample \o ClaimHeaderEnd)

====
